---- MODULE Spec2Model ----
(***************************************************************************)
(* Job discovery engine, search configuration store and company lookup of *)
(* job-platform (src/modules/job_discovery.py, src/main.py).               *)
(*                                                                         *)
(* Strings are sequences of one-character strings, so that strip(),        *)
(* lower() and startswith() are computed and not assumed.  JSON values are *)
(* tagged records.  Averages are exact rationals <<numerator,denominator>> *)
(* in lowest terms (the code uses floats).                                 *)
(***************************************************************************)
EXTENDS Integers, Sequences, FiniteSets, TLC

(***************************************************************************)
(* Bounds of the model.                                                    *)
(***************************************************************************)
\* the clock stops at MaxTime: at most MaxTime searches, creations and edits
MaxTime == 2
\* measured durations are whole seconds in 1..MaxDuration
MaxDuration == 2

(***************************************************************************)
(* Strings.                                                                *)
(***************************************************************************)
Whitespace == {" ", "\n", "\t"}

\* str.lower() on one character (the letters the inputs of the model use)
LowerChar(c) ==
    CASE c = "A" -> "a" [] c = "C" -> "c" [] c = "I" -> "i" [] c = "K" -> "k"
      [] c = "N" -> "n" [] c = "O" -> "o" [] c = "U" -> "u" [] c = "W" -> "w"
      [] c = "M" -> "m" [] c = "P" -> "p" [] c = "Y" -> "y" [] c = "T" -> "t"
      [] OTHER -> c

\* str.lower()
Lower(s) == [i \in 1..Len(s) |-> LowerChar(s[i])]

\* str.strip(): drops the leading and the trailing whitespace
RECURSIVE LStrip(_)
LStrip(s) == IF s # <<>> /\ Head(s) \in Whitespace THEN LStrip(Tail(s)) ELSE s

RECURSIVE RStrip(_)
RStrip(s) ==
    IF s # <<>> /\ s[Len(s)] \in Whitespace
    THEN RStrip(SubSeq(s, 1, Len(s) - 1))
    ELSE s

Strip(s) == RStrip(LStrip(s))

\* str.startswith(prefix)
StartsWith(s, prefix) ==
    /\ Len(s) >= Len(prefix)
    /\ SubSeq(s, 1, Len(prefix)) = prefix

HttpPrefix == <<"h", "t", "t", "p", ":", "/", "/">>
HttpsPrefix == <<"h", "t", "t", "p", "s", ":", "/", "/">>

(***************************************************************************)
(* JSON values, as json.loads returns them.                                *)
(***************************************************************************)
JStr(s) == [t |-> "str", s |-> s]
JNum(n) == [t |-> "num", n |-> n]
JNull == [t |-> "null"]
JList(l) == [t |-> "list", l |-> l]
JObj(f) == [t |-> "obj", f |-> f]

IsStr(v) == v.t = "str"
IsList(v) == v.t = "list"
IsDict(v) == v.t = "obj"

(***************************************************************************)
(* The strings of the code.                                                *)
(***************************************************************************)
UnknownTitle == <<"U", "n", "k", "n", "o", "w", "n", " ", "T", "i", "t", "l", "e">>
UnknownCompany == <<"U", "n", "k", "n", "o", "w", "n", " ", "C", "o", "m", "p", "a", "n", "y">>
UnknownLocation == <<"U", "n", "k", "n", "o", "w", "n", " ", "L", "o", "c", "a", "t", "i", "o", "n">>
NoDescription == <<"N", "o", " ", "d", "e", "s", "c", "r", "i", "p", "t", "i", "o", "n", " ", "a", "v", "a", "i", "l", "a", "b", "l", "e">>
DefaultLink == <<"h", "t", "t", "p", "s", ":", "/", "/", "w", "w", "w", ".", "l", "i", "n", "k", "e", "d", "i", "n", ".", "c", "o", "m", "/", "j", "o", "b", "s", "/">>
UnknownDate == <<"U", "n", "k", "n", "o", "w", "n">>
NotSpecified == <<"N", "o", "t", " ", "s", "p", "e", "c", "i", "f", "i", "e", "d">>

\* the placeholder company names the primary search rejects
PlaceholderCompanies ==
    { <<"n", "/", "a">>,
      <<"u", "n", "k", "n", "o", "w", "n">>,
      <<"u", "n", "k", "n", "o", "w", "n", " ", "c", "o", "m", "p", "a", "n", "y">>,
      <<>> }

\* the fields the primary search requires of a candidate
required_fields == {"title", "company", "location", "description", "requirements", "link"}

\* the fields of a JobListing
JobListingFields ==
    {"title", "company", "location", "description", "requirements", "link",
     "posted_date", "salary"}

(***************************************************************************)
(* Normalization of the candidates of the primary search                   *)
(* (search_job_openings) and of the fallback search (_fallback_job_search).*)
(* A Python exception raised while a candidate is handled aborts the whole *)
(* loop; the operators below say when that happens.                        *)
(***************************************************************************)
\* `field in job`: key membership for a dict; for a str (substring test) or
\* a list (element test) it is false for the inputs of the model, none of
\* which holds a field name; any other value is not iterable (TypeError)
FieldInRaises(job) == job.t \notin {"obj", "str", "list"}

FieldIn(field, job) == IsDict(job) /\ field \in DOMAIN job.f

\* job.get(key, default), for a dict
DictGet(job, key, default) ==
    IF key \in DOMAIN job.f THEN job.f[key] ELSE default

\* all(field in job for field in required_fields)
HasRequiredFields(job) == \A field \in required_fields : FieldIn(field, job)

\* job.get('company', '').lower() in ['n/a', 'unknown', 'unknown company', '']
IsPlaceholderCompany(job) ==
    Lower(DictGet(job, "company", JStr(<<>>)).s) \in PlaceholderCompanies

\* the defaults of the .get calls that build normalized_job
FieldDefault(key) ==
    CASE key = "title" -> JStr(UnknownTitle)
      [] key = "company" -> JStr(UnknownCompany)
      [] key = "location" -> JStr(UnknownLocation)
      [] key = "description" -> JStr(NoDescription)
      [] key = "link" -> JStr(DefaultLink)
      [] key = "posted_date" -> JStr(UnknownDate)
      [] key = "salary" -> JStr(NotSpecified)
      [] key = "requirements" -> JList(<<>>)

\* the fields on which .strip() is called
StrippedFields ==
    {"title", "company", "location", "description", "link", "posted_date", "salary"}

\* .strip() raises AttributeError on a value that is not a str
StripRaises(job) ==
    \E key \in StrippedFields : ~IsStr(DictGet(job, key, FieldDefault(key)))

\* job.get(key, default).strip()
GetStripped(job, key) == Strip(DictGet(job, key, FieldDefault(key)).s)

\* a normalization that keeps lists only
NormalizeRequirements_ListsOnly(v) == IF IsList(v) THEN v.l ELSE <<>>

\* "Ensure requirements is a list"
NormalizeRequirements(v) ==
    IF IsList(v) THEN v.l
    ELSE IF IsStr(v) THEN <<v>>
    ELSE <<>>

\* a normalization that leaves every link as it is
NormalizeLink_AsIs(link) == link

\* "Ensure link is a valid URL"
NormalizeLink(link) ==
    IF StartsWith(link, HttpPrefix) \/ StartsWith(link, HttpsPrefix)
    THEN link
    ELSE HttpsPrefix \o link

\* the dict literal normalized_job, then the requirements and link fixes
NormalizedFields(job) ==
    [title |-> GetStripped(job, "title"),
     company |-> GetStripped(job, "company"),
     location |-> GetStripped(job, "location"),
     description |-> GetStripped(job, "description"),
     requirements |->
        NormalizeRequirements(DictGet(job, "requirements", FieldDefault("requirements"))),
     link |-> NormalizeLink(GetStripped(job, "link")),
     posted_date |-> GetStripped(job, "posted_date"),
     salary |-> GetStripped(job, "salary")]

\* the primary loop skips the candidate (continue)
PrimarySkips(job) ==
    \/ ~HasRequiredFields(job)
    \/ IsPlaceholderCompany(job)

\* the primary loop raises on the candidate
PrimaryRaises(job) ==
    \/ FieldInRaises(job)
    \/ /\ HasRequiredFields(job)
       /\ \/ ~IsStr(DictGet(job, "company", JStr(<<>>)))
          \/ ~IsPlaceholderCompany(job) /\ StripRaises(job)

\* one normalized job of the primary search; _metadata keeps the
\* configuration name (search_id and timestamp are left out)
PrimaryNormalizedJob(job, config_name) ==
    NormalizedFields(job) @@ [metadata |-> [config_name |-> config_name]]

\* the loop `for job in jobs` of search_job_openings from candidate i on:
\* raised, or the normalized jobs and the indexes of the candidates kept
RECURSIVE PrimaryNormalizeFrom(_, _, _)
PrimaryNormalizeFrom(jobs, i, config_name) ==
    IF i > Len(jobs)
    THEN [raised |-> FALSE, jobs |-> <<>>, kept |-> <<>>]
    ELSE IF PrimaryRaises(jobs[i])
    THEN [raised |-> TRUE, jobs |-> <<>>, kept |-> <<>>]
    ELSE LET rest == PrimaryNormalizeFrom(jobs, i + 1, config_name) IN
         IF rest.raised \/ PrimarySkips(jobs[i])
         THEN rest
         ELSE [raised |-> FALSE,
               jobs |-> <<PrimaryNormalizedJob(jobs[i], config_name)>> \o rest.jobs,
               kept |-> <<i>> \o rest.kept]

\* `if 'company' in job and 'title' in job` of the fallback loop
FallbackKeeps(job) == FieldIn("company", job) /\ FieldIn("title", job)

\* the fallback loop raises on the candidate
FallbackRaises(job) ==
    \/ FieldInRaises(job)
    \/ FallbackKeeps(job) /\ StripRaises(job)

\* one normalized job of the fallback search (no _metadata)
FallbackNormalizedJob(job) == NormalizedFields(job)

\* the loop `for job in jobs` of _fallback_job_search from candidate i on
RECURSIVE FallbackNormalizeFrom(_, _)
FallbackNormalizeFrom(jobs, i) ==
    IF i > Len(jobs)
    THEN [raised |-> FALSE, jobs |-> <<>>, kept |-> <<>>]
    ELSE IF FallbackRaises(jobs[i])
    THEN [raised |-> TRUE, jobs |-> <<>>, kept |-> <<>>]
    ELSE LET rest == FallbackNormalizeFrom(jobs, i + 1) IN
         IF rest.raised \/ ~FallbackKeeps(jobs[i])
         THEN rest
         ELSE [raised |-> FALSE,
               jobs |-> <<FallbackNormalizedJob(jobs[i])>> \o rest.jobs,
               kept |-> <<i>> \o rest.kept]

\* `if not isinstance(jobs, list): jobs = [jobs] if isinstance(jobs, dict) else []`
AsJobList(parsed) ==
    IF IsList(parsed) THEN parsed.l
    ELSE IF IsDict(parsed) THEN <<parsed>>
    ELSE <<>>

(***************************************************************************)
(* The LLM gateway: _make_api_request of JobDiscoveryManager.              *)
(* A gateway event is what the network does with one request.              *)
(***************************************************************************)
None == [t |-> "none"]

\* a response body without the key 'choices'
ErrorBody == [detail |-> "error"]

\* response.json() of a 200 response holding the given message contents
Completion(contents) == [choices |-> contents]

\* the exceptions requests.post can raise, by what hasattr(e, 'response')
\* and e.response are: a requests exception always has the attribute, set to
\* None unless a response was received (ConnectionError, Timeout: None;
\* TooManyRedirects: the response); any other exception has no attribute
TransportErrors == {"exc_no_attribute", "exc_response_none", "exc_with_response"}

\* the except clause of JobDiscoveryManager._make_api_request logs
\* e.response.text when hasattr(e, 'response'): with e.response None that
\* raises AttributeError out of the handler
HandlerRaises(event) == event.kind = "exc_response_none"

\* a gateway that answers a failed request with an empty list of jobs
MakeApiRequest_FailureAsEmpty(event) ==
    IF event.kind = "ok" THEN [raised |-> FALSE, result |-> event.body]
    ELSE [raised |-> FALSE, result |-> [choices |-> <<[style |-> "bare",
                                         value |-> [t |-> "list", l |-> <<>>]]>>]]

\* JobDiscoveryManager._make_api_request: raised, or the value returned
MakeApiRequest(event) ==
    IF event.kind = "status" THEN [raised |-> FALSE, result |-> None]
    ELSE IF event.kind \in TransportErrors
    THEN [raised |-> HandlerRaises(event), result |-> None]
    ELSE [raised |-> FALSE, result |-> event.body]

\* `not result or 'choices' not in result`
InvalidResponse(result) ==
    \/ result = None
    \/ DOMAIN result = {}
    \/ "choices" \notin DOMAIN result

(***************************************************************************)
(* Parsing of the message content.  A content is a text, modelled by how   *)
(* it wraps a JSON value: "bare" (the text is the JSON document), "fenced" *)
(* (inside a triple-backtick fence), "embedded" (inside prose), or "prose" *)
(* (no JSON at all).  The JSON text is on one line; in the "embedded"      *)
(* style prose precedes and follows it on that line, and the prose holds   *)
(* no bracket or brace.  The objects of the model are flat, but for one    *)
(* company record and the additional_metrics of a review.                  *)
(***************************************************************************)
Bare(value) == [style |-> "bare", value |-> value]
Fenced(value) == [style |-> "fenced", value |-> value]
Embedded(value) == [style |-> "embedded", value |-> value]
Prose == [style |-> "prose", value |-> JNull]

\* json.loads(content) succeeds only on a JSON document
JsonLoadsFails(content) == content.style # "bare"

\* re.search(r'\[\s*{.*?}\s*\]', content, re.DOTALL): the text must hold
\* '[' followed by '{' and later '}' followed by ']'; with flat objects the
\* shortest such match is the whole array, and only of an array whose first
\* and last elements are objects
ArrayRegexMatches(content) ==
    /\ content.style \in {"fenced", "embedded"}
    /\ IsList(content.value)
    /\ content.value.l # <<>>
    /\ IsDict(content.value.l[1])
    /\ IsDict(content.value.l[Len(content.value.l)])

\* the parsing of the primary search: json.loads, then the array regex
PrimaryParse(content) ==
    IF ~JsonLoadsFails(content)
    THEN [ok |-> TRUE, value |-> content.value]
    ELSE IF ArrayRegexMatches(content)
    THEN [ok |-> TRUE, value |-> content.value]
    ELSE [ok |-> FALSE, value |-> JNull]

\* the parsing of the fallback search: json.loads only
FallbackParse(content) ==
    IF ~JsonLoadsFails(content)
    THEN [ok |-> TRUE, value |-> content.value]
    ELSE [ok |-> FALSE, value |-> JNull]

(***************************************************************************)
(* Exact rationals for the averages.                                       *)
(***************************************************************************)
RECURSIVE GCD(_, _)
GCD(a, b) == IF b = 0 THEN a ELSE GCD(b, a % b)

\* num/den in lowest terms (num >= 0, den > 0)
Rat(num, den) == LET g == GCD(num, den) IN <<num \div g, den \div g>>

Zero == <<0, 1>>

\* (average * runs + value) / (runs + 1), the expression of metrics_update
AverageExpression(average, runs, value) ==
    Rat(average[1] * runs + value * average[2], average[2] * (runs + 1))

(***************************************************************************)
(* Search configurations.  A temperature is in tenths (5 is 0.5).  A       *)
(* user_prompt_template is modelled by the set of the replacement fields   *)
(* it holds; a store maps configuration names to configurations.           *)
(***************************************************************************)
Managers == {1, 2}

\* the session of StoreSpec
StoreManagers == {1}

Names == {"default", "specific_jobs", "custom"}

\* user_prompt_template.format(background=..., criteria=...) raises KeyError
\* on any replacement field other than the two it is given
FormatRaises(template) == template \ {"background", "criteria"} # {}

PlainTemplate == {"background", "criteria"}

\* a template with a stray replacement field, such as an unescaped JSON example
StrayTemplate == {"background", "criteria", "title"}

ZeroMetrics ==
    [total_runs |-> 0,
     successful_runs |-> 0,
     average_jobs_returned |-> Zero,
     average_response_time |-> Zero]

\* default_configs of _load_search_configs, built at time t
default_configs(t) ==
    [name \in {"default", "specific_jobs"} |->
        [description |-> IF name = "default" THEN "Default search configuration"
                         ELSE "More targeted job search with specific job board focus",
         system_prompt |-> "system prompt",
         user_prompt_template |-> PlainTemplate,
         model |-> "sonar",
         temperature |-> IF name = "default" THEN 5 ELSE 3,
         use_fallback |-> TRUE,
         metrics |-> ZeroMetrics,
         created_at |-> t,
         updated_at |-> t]]

\* a record without the field use_fallback
WithoutUseFallback(config) ==
    [key \in DOMAIN config \ {"use_fallback"} |-> config[key]]

\* a configuration made with the "Create New Configuration" form at time t
NewConfig(model, temperature, template, use_fallback, t) ==
    [description |-> "Custom configuration",
     system_prompt |-> "system prompt",
     user_prompt_template |-> template,
     model |-> model,
     temperature |-> temperature,
     use_fallback |-> use_fallback,
     metrics |-> ZeroMetrics,
     created_at |-> t,
     updated_at |-> t]

\* a configuration file left by earlier sessions and edited by hand:
\* "default" has lost its use_fallback key, "specific_jobs" was given a
\* template with a stray replacement field, and "custom" was created with
\* the fallback switched off
EditedFile ==
    [name \in Names |->
        CASE name = "default" -> WithoutUseFallback(default_configs(0)[name])
          [] name = "specific_jobs" ->
                [default_configs(0)[name] EXCEPT !.user_prompt_template = StrayTemplate]
          [] name = "custom" -> NewConfig("poe", 10, PlainTemplate, FALSE, 0)]

\* the configuration files the first session may find
InitialFiles == {default_configs(0), EditedFile}

\* a search that takes every configuration to have the fallback switched on
UseFallback_Ignored(config) == TRUE

\* config.get("use_fallback", True)
UseFallback(config) ==
    IF "use_fallback" \in DOMAIN config THEN config.use_fallback ELSE TRUE

\* the temperature _fallback_job_search passes to the gateway (0.7)
FallbackTemperature == 7

\* the model _make_api_request puts in every request
RequestModel == "sonar"

\* the values the configuration forms offer
FormModels == {"poe"}
FormTemperatures == {10}
FormTemplates == {PlainTemplate, StrayTemplate}
FormNames == Names \cup {""}

(***************************************************************************)
(* save_search_metrics.                                                    *)
(***************************************************************************)
\* metrics.update(metrics_update) and the updated_at stamp, in memory
UpdateMetrics(store, config_name, metrics_update, t) ==
    IF config_name \in DOMAIN store
    THEN [store EXCEPT ![config_name].metrics = metrics_update @@ @,
                       ![config_name].updated_at = t]
    ELSE store

\* the content of search_configs.json: there is no file, the file holds
\* a text json.load cannot parse (empty or cut short), or it holds a JSON
\* document, modelled by the store json.load makes of it
NoFile == [kind |-> "absent"]
Corrupt == [kind |-> "corrupt"]
Document(store) == [kind |-> "document", store |-> store]

\* open(config_path, 'w') and json.dump(store): the file holds the store when
\* the write succeeds and is left as it was when open fails
WriteOutcomes == {"ok", "error"}

\* open(config_path, 'w') empties the file in place before json.dump fills
\* it: a write that is cut short after open (crash, disk full) leaves a text
\* that is no JSON document
StoreWriteOutcomes == WriteOutcomes \cup {"partial"}

WriteFile(old_file, store, outcome) ==
    CASE outcome = "ok" -> Document(store)
      [] outcome = "error" -> old_file
      [] outcome = "partial" -> Corrupt

(***************************************************************************)
(* The inputs of the model: candidate job records and gateway events.      *)
(***************************************************************************)
\* a candidate with every field of a JobListing
GoodJob ==
    JObj([title |-> JStr(<<"A", "n", "a", "l", "y", "s", "t">>),
          company |-> JStr(<<"A", "c", "m", "e">>),
          location |-> JStr(<<"R", "e", "m", "o", "t", "e">>),
          description |-> JStr(<<"D", "a", "t", "a">>),
          requirements |-> JList(<<JStr(<<"S", "Q", "L">>)>>),
          link |-> JStr(<<"h", "t", "t", "p", "s", ":", "/", "/", "a", "c", "m", "e", ".", "c", "o", "m", "/", "j">>),
          posted_date |-> JStr(<<"t", "o", "d", "a", "y">>),
          salary |-> JStr(<<"$", "1", "0", "0", "k">>)])

\* the candidate with one field replaced
WithField(job, key, value) == JObj([job.f EXCEPT ![key] = value])

\* the candidate without one field
WithoutField(job, key) == JObj([k \in DOMAIN job.f \ {key} |-> job.f[k]])

PlaceholderJob == WithField(GoodJob, "company", JStr(<<"N", "/", "A">>))
PaddedPlaceholderJob == WithField(GoodJob, "company", JStr(<<" ", "N", "/", "A", " ">>))
NoSalaryJob == WithoutField(GoodJob, "salary")
NoLocationJob == WithoutField(GoodJob, "location")
NoCompanyJob == WithoutField(GoodJob, "company")
NullSalaryJob == WithField(GoodJob, "salary", JNull)
BareLinkJob == WithField(GoodJob, "link", JStr(<<"a", "c", "m", "e", ".", "c", "o", "m", "/", "j">>))
StringRequirementsJob == WithField(GoodJob, "requirements", JStr(<<"S", "Q", "L">>))
NumberRequirementsJob == WithField(GoodJob, "requirements", JNum(3))
NoRequirementsJob == WithoutField(GoodJob, "requirements")
HttpLinkJob == WithField(GoodJob, "link", JStr(<<"h", "t", "t", "p", ":", "/", "/", "a", ".", "i", "o">>))
PaddedLinkJob == WithField(GoodJob, "link", JStr(<<" ", "a", ".", "i", "o", "\n">>))

\* the JSON arrays a response may hold
JobLists ==
    { <<>>,
      <<GoodJob>>,
      <<GoodJob, BareLinkJob>>,
      <<PlaceholderJob>>,
      <<PaddedPlaceholderJob>>,
      <<NoSalaryJob>>,
      <<NoLocationJob>>,
      <<NoCompanyJob>>,
      <<NullSalaryJob>>,
      <<StringRequirementsJob>>,
      <<NumberRequirementsJob>>,
      <<JStr(<<"n", "o", "n", "e">>)>>,
      <<GoodJob, NullSalaryJob>>,
      <<GoodJob, JNum(3)>>,
      <<GoodJob, PlaceholderJob>>,
      <<GoodJob, NoLocationJob>>,
      <<HttpLinkJob, PaddedLinkJob, NoRequirementsJob>> }

\* the message contents a response may hold
Contents ==
    {Bare(JList(l)) : l \in JobLists}
    \cup { Bare(GoodJob),
           Bare(JNum(3)),
           Fenced(JList(<<GoodJob>>)),
           Fenced(JList(<<GoodJob, JNum(3)>>)),
           Embedded(JList(<<GoodJob, BareLinkJob>>)),
           Embedded(GoodJob),
           Prose }

\* what the network does with a request: a status other than 200, an
\* exception, or a 200 response with a body
GatewayEvents ==
    {[kind |-> "status", body |-> None]}
    \cup {[kind |-> k, body |-> None] : k \in TransportErrors}
    \cup {[kind |-> "ok", body |-> ErrorBody],
          [kind |-> "ok", body |-> Completion(<<>>)]}
    \cup {[kind |-> "ok", body |-> Completion(<<c>>)] : c \in Contents}

\* the measured durations, in seconds
Durations == 1..MaxDuration

(***************************************************************************)
(* State.                                                                  *)
(*   file                the configuration file search_configs.json        *)
(*   sessions            the UI sessions that hold a JobDiscoveryManager   *)
(*   search_configs[m]   the store of manager m, in memory                 *)
(*   active_config_name  the active configuration name of manager m        *)
(*   call[m]             the search_job_openings call of manager m, in     *)
(*                       flight or last returned                           *)
(*   now                 the clock                                         *)
(*   hist, tally         history: what the searches measured and how many  *)
(*                       completed                                         *)
(*   ui[m]               what the configuration tab of session m last did  *)
(*                       and showed, and what the load of m found          *)
(*   lookup              the get_company_info call, last returned          *)
(***************************************************************************)
VARIABLES file, sessions, search_configs, active_config_name, call, now, hist,
          tally, ui, lookup

vars ==
    <<file, sessions, search_configs, active_config_name, call, now, hist,
      tally, ui, lookup>>

\* the variables of the search configuration store and of the job search
storeVars ==
    <<file, sessions, search_configs, active_config_name, call, now, hist,
      tally, ui>>

EmptyStore == [name \in {} |-> ZeroMetrics]

\* the values of the environment variable ACTIVE_SEARCH_CONFIG; "retired"
\* names no configuration
EnvActiveNames == {"default", "retired"}

NoCall ==
    [state |-> "NONE",
     asked |-> "",
     config_name |-> "default",
     requests |-> <<>>,
     primary_event |-> "none",
     primary |-> "none",
     fallback |-> "none",
     candidates |-> <<>>,
     kept |-> <<>>,
     result |-> <<>>,
     primary_count |-> 0,
     saves |-> 0,
     written |-> 0,
     duration |-> 0,
     gateway_raised |-> FALSE,
     raised |-> FALSE,
     runs_before |-> 0]

\* nothing loaded, no defaults file created, no form submitted, no message
\* shown
NoUi ==
    [loaded |-> "none", seeded |-> FALSE, op |-> "none", name |-> "",
     message |-> "none"]

\* no company looked up
NoLookup == [state |-> "NONE"]

NoHistory ==
    [zero |-> FALSE, calls |-> 0, reached |-> 0, sum_duration |-> 0, sum_jobs |-> 0]

\* the state before any session is open, but for the file
NothingOpen ==
    /\ sessions = {}
    /\ search_configs = [m \in Managers |-> EmptyStore]
    /\ active_config_name = [m \in Managers |-> "default"]
    /\ call = [m \in Managers |-> NoCall]
    /\ now = 0
    /\ hist = [m \in Managers |-> [name \in Names |-> NoHistory]]
    /\ tally = [name \in Names |-> [completed |-> 0, unsaved |-> 0]]
    /\ ui = [m \in Managers |-> NoUi]
    /\ lookup = NoLookup

Init ==
    /\ file \in {Document(store) : store \in InitialFiles}
    /\ NothingOpen

Idle(m) == m \in sessions /\ call[m].state \in {"NONE", "DONE"}

(***************************************************************************)
(* JobDiscoveryManager.__init__: the store is loaded from the file.        *)
(***************************************************************************)
\* a load that returns an empty store when the file cannot be parsed
LoadSearchConfigs_NoDefaults(f, t) ==
    IF f.kind = "document" THEN f.store
    ELSE IF f.kind = "absent" THEN default_configs(t)
    ELSE EmptyStore

\* what _load_search_configs returns at time t: the document of the file,
\* or default_configs when there is no file or json.load raises
LoadSearchConfigs(f, t) ==
    IF f.kind = "document" THEN f.store ELSE default_configs(t)

\* the file after _load_search_configs at time t: the defaults are written
\* when there was no file, and an existing file is only read
FileAfterLoad(f, t, outcome) ==
    IF f.kind = "absent" THEN WriteFile(f, default_configs(t), outcome) ELSE f

OpenSession(m, env_active, outcome) ==
    /\ m \notin sessions
    /\ sessions' = sessions \cup {m}
    /\ LET store == LoadSearchConfigs(file, now) IN
       /\ search_configs' = [search_configs EXCEPT ![m] = store]
       /\ hist' = [hist EXCEPT ![m] =
                     [name \in Names |->
                        [NoHistory EXCEPT !.zero =
                           name \in DOMAIN store => store[name].metrics = ZeroMetrics]]]
    /\ file' = FileAfterLoad(file, now, outcome)
    /\ active_config_name' = [active_config_name EXCEPT ![m] = env_active]
    \* seeded: the load logged "Created default search configurations"
    /\ ui' = [ui EXCEPT ![m] =
                [NoUi EXCEPT !.loaded = file.kind,
                             !.seeded = (file.kind = "absent" /\ outcome = "ok")]]
    /\ UNCHANGED <<call, now, tally, lookup>>

(***************************************************************************)
(* search_job_openings.                                                    *)
(***************************************************************************)
\* `config_name or self.active_config_name`
AskedName(requested, active) ==
    IF requested = "" THEN active ELSE requested

\* `config_name or self.active_config_name`, then the check against the store
ResolveConfigName(requested, active, store) ==
    LET config_name == AskedName(requested, active) IN
    IF config_name \notin DOMAIN store THEN "default" ELSE config_name

\* one gateway request, as _make_api_request sends it
Request(purpose, temperature) ==
    [purpose |-> purpose, model |-> RequestModel, temperature |-> temperature]

\* history: one more search has returned
Completed(old_tally, c) ==
    IF c.state = "DONE"
    THEN [old_tally EXCEPT ![c.config_name] =
            [completed |-> @.completed + 1,
             unsaved |-> @.unsaved + (IF c.written = 0 THEN 1 ELSE 0)]]
    ELSE old_tally

\* the call starts: it resolves the configuration, formats the prompt and
\* sends the primary request; a formatting error returns [] at once
StartSearch(m, requested) ==
    /\ Idle(m)
    /\ now < MaxTime
    /\ LET store == search_configs[m]
           config_name == ResolveConfigName(requested, active_config_name[m], store)
           config == store[config_name]
           asked == AskedName(requested, active_config_name[m])
           started == [NoCall EXCEPT !.asked = asked,
                                     !.config_name = config_name,
                                     !.runs_before = config.metrics.total_runs]
           c == IF config_name \notin DOMAIN store
                THEN \* self.search_configs[config_name] raises KeyError, before
                     \* the try: the call raises to its caller
                     [NoCall EXCEPT !.state = "DONE", !.asked = asked,
                                    !.config_name = config_name,
                                    !.primary = "no_configuration", !.raised = TRUE]
                ELSE IF FormatRaises(config.user_prompt_template)
                THEN [started EXCEPT !.state = "DONE", !.primary = "format_error"]
                ELSE [started EXCEPT
                        !.state = "PRIMARY_SEARCH",
                        !.primary = "pending",
                        !.requests = <<Request("primary", config.temperature)>>]
       IN /\ call' = [call EXCEPT ![m] = c]
          /\ hist' = [hist EXCEPT ![m][config_name].calls = @ + 1]
          /\ tally' = Completed(tally, c)
    /\ now' = now + 1
    /\ UNCHANGED <<file, sessions, search_configs, active_config_name, ui, lookup>>

\* an update that counts a run without a listing as successful
MetricsUpdate_CountsEveryRun(current_metrics, jobs_found, duration) ==
    [successful_runs |-> current_metrics.successful_runs + 1,
     average_jobs_returned |->
        AverageExpression(current_metrics.average_jobs_returned,
                          current_metrics.total_runs, jobs_found),
     average_response_time |->
        AverageExpression(current_metrics.average_response_time,
                          current_metrics.total_runs, duration)]

\* an update that counts every run as successful, twice
MetricsUpdate_Overcount(current_metrics, jobs_found, duration) ==
    [successful_runs |-> current_metrics.successful_runs + 2,
     average_jobs_returned |->
        AverageExpression(current_metrics.average_jobs_returned,
                          current_metrics.total_runs, jobs_found),
     average_response_time |->
        AverageExpression(current_metrics.average_response_time,
                          current_metrics.total_runs, duration)]

\* the dict metrics_update, computed from current_metrics as it is then
MetricsUpdate(current_metrics, jobs_found, duration) ==
    [successful_runs |->
        current_metrics.successful_runs + (IF jobs_found > 0 THEN 1 ELSE 0),
     average_jobs_returned |->
        AverageExpression(current_metrics.average_jobs_returned,
                          current_metrics.total_runs, jobs_found),
     average_response_time |->
        AverageExpression(current_metrics.average_response_time,
                          current_metrics.total_runs, duration)]

\* the test with the emptiness check inverted
TakesFallback_Inverted(normalized_jobs, config) ==
    normalized_jobs # <<>> /\ UseFallback(config)

\* `if not normalized_jobs and config.get("use_fallback", True)`
TakesFallback(normalized_jobs, config) ==
    normalized_jobs = <<>> /\ UseFallback(config)

\* the effect of a step of manager m's call on the state
Effect(m, c, store, writes, outcome) ==
    /\ call' = [call EXCEPT ![m] = c]
    /\ search_configs' = [search_configs EXCEPT ![m] = store]
    /\ file' = IF writes THEN WriteFile(file, store, outcome) ELSE file
    /\ tally' = Completed(tally, c)
    /\ UNCHANGED <<ui, lookup>>

\* the primary response arrives and the call runs on until it returns or
\* sends the fallback request
PrimaryResponse(m, event, duration, outcome) ==
    /\ m \in sessions
    /\ call[m].state = "PRIMARY_SEARCH"
    /\ LET config_name == call[m].config_name
           store == search_configs[m]
           gw == MakeApiRequest(event)
           \* current_metrics["total_runs"] += 1 changes the store in place
           counted == [store EXCEPT ![config_name].metrics.total_runs = @ + 1]
           current_metrics == counted[config_name].metrics
           wrote == IF outcome = "ok" THEN 1 ELSE 0
           returned == [call[m] EXCEPT !.state = "DONE",
                                       !.primary_event = event.kind]
       IN
       IF gw.raised
       THEN \* the outer except clause returns []
            /\ Effect(m, [returned EXCEPT !.primary = "gateway_raised",
                                          !.gateway_raised = TRUE],
                      store, FALSE, outcome)
            /\ UNCHANGED hist
       ELSE IF InvalidResponse(gw.result)
       THEN \* save_search_metrics(config_name, current_metrics); return []
            /\ Effect(m, [returned EXCEPT !.primary = "invalid_response",
                                          !.saves = 1, !.written = wrote],
                      UpdateMetrics(counted, config_name, current_metrics, now),
                      TRUE, outcome)
            /\ UNCHANGED hist
       ELSE IF gw.result.choices = <<>>
       THEN \* result['choices'][0] raises IndexError: the outer except
            /\ Effect(m, [returned EXCEPT !.primary = "no_choice"],
                      counted, FALSE, outcome)
            /\ UNCHANGED hist
       ELSE LET parsed == PrimaryParse(gw.result.choices[1]) IN
       IF ~parsed.ok
       THEN \* "Failed to parse JSON array" / "No JSON array found": return []
            /\ Effect(m, [returned EXCEPT !.primary = "parse_failure"],
                      counted, FALSE, outcome)
            /\ UNCHANGED hist
       ELSE LET jobs == AsJobList(parsed.value)
                normalized == PrimaryNormalizeFrom(jobs, 1, config_name)
            IN
       IF normalized.raised
       THEN \* the outer except clause returns []
            /\ Effect(m, [returned EXCEPT !.primary = "normalize_raised",
                                          !.candidates = jobs],
                      counted, FALSE, outcome)
            /\ UNCHANGED hist
       ELSE LET jobs_found == Len(normalized.jobs)
                saved == UpdateMetrics(counted, config_name,
                            MetricsUpdate(current_metrics, jobs_found, duration), now)
                measured == [call[m] EXCEPT
                               !.primary_event = event.kind,
                               !.primary = "normalized",
                               !.primary_count = jobs_found,
                               !.duration = duration,
                               !.saves = 1,
                               !.written = wrote]
            IN
            /\ hist' = [hist EXCEPT ![m][config_name] =
                          [@ EXCEPT !.reached = @ + 1,
                                    !.sum_duration = @ + duration,
                                    !.sum_jobs = @ + jobs_found]]
            /\ IF TakesFallback(normalized.jobs, counted[config_name])
               THEN \* return self._fallback_job_search(...): the fallback
                    \* request is sent
                    Effect(m, [measured EXCEPT
                                 !.state = "FALLBACK_SEARCH",
                                 !.fallback = "pending",
                                 !.requests =
                                    Append(@, Request("fallback", FallbackTemperature))],
                           saved, TRUE, outcome)
               ELSE \* return normalized_jobs
                    Effect(m, [measured EXCEPT
                                 !.state = "DONE",
                                 !.candidates = jobs,
                                 !.kept = normalized.kept,
                                 !.result = normalized.jobs],
                           saved, TRUE, outcome)
    /\ UNCHANGED <<sessions, active_config_name, now>>

\* _fallback_job_search from the response on: the list it returns, with the
\* candidates it was computed from
FallbackSearch(event) ==
    LET gw == MakeApiRequest(event)
        failed(tag) == [tag |-> tag, candidates |-> <<>>, kept |-> <<>>, jobs |-> <<>>]
    IN
    IF gw.raised THEN failed("gateway_raised")
    ELSE IF InvalidResponse(gw.result) THEN failed("invalid_response")
    ELSE IF gw.result.choices = <<>> THEN failed("no_choice")
    ELSE LET parsed == FallbackParse(gw.result.choices[1]) IN
    IF ~parsed.ok THEN failed("parse_failure")
    ELSE LET jobs == AsJobList(parsed.value)
             normalized == FallbackNormalizeFrom(jobs, 1)
         IN
    IF normalized.raised
    THEN [failed("normalize_raised") EXCEPT !.candidates = jobs]
    ELSE [tag |-> "normalized", candidates |-> jobs,
          kept |-> normalized.kept, jobs |-> normalized.jobs]

\* the fallback response arrives and search_job_openings returns what
\* _fallback_job_search returns
FallbackResponse(m, event) ==
    /\ m \in sessions
    /\ call[m].state = "FALLBACK_SEARCH"
    /\ LET fb == FallbackSearch(event) IN
       Effect(m, [call[m] EXCEPT
                    !.state = "DONE",
                    !.fallback = fb.tag,
                    !.candidates = fb.candidates,
                    !.kept = fb.kept,
                    !.result = fb.jobs,
                    !.gateway_raised = (fb.tag = "gateway_raised")],
              search_configs[m], FALSE, "ok")
    /\ UNCHANGED <<sessions, active_config_name, now, hist>>

(***************************************************************************)
(* The configuration tab of src/main.py.  Its search_configs is the very   *)
(* dict of the manager, so the forms change the manager's store in place.  *)
(***************************************************************************)
\* "Set as Active Configuration"; the selector offers the names of the store
SetActive(m, selected_config) ==
    /\ Idle(m)
    /\ selected_config \in DOMAIN search_configs[m]
    /\ active_config_name[m] # selected_config
    /\ active_config_name' = [active_config_name EXCEPT ![m] = selected_config]
    /\ UNCHANGED <<file, sessions, search_configs, call, now, hist, tally, ui, lookup>>

\* a form that overwrites the configuration of an existing name
CreateRefuses_Never(store, new_config_name) == FALSE

\* `elif new_config_name in search_configs`
CreateRefuses(store, new_config_name) == new_config_name \in DOMAIN store

\* store[name] = config, for a name the store may not hold yet
Put(store, name, config) ==
    [n \in DOMAIN store \cup {name} |-> IF n = name THEN config ELSE store[n]]

\* what the form submitted and the message it showed
Submitted(old_ui, op, name, message) ==
    [old_ui EXCEPT !.op = op, !.name = name, !.message = message]

\* the message after the write of the store
WriteMessage(outcome) == IF outcome = "ok" THEN "success" ELSE "write_error"

\* "Save Configuration": an empty name and a name of the store are refused
\* with an error message; otherwise the configuration is put in the store,
\* then the store is written to the file (the prompts of the model are
\* never empty)
CreateConfiguration(m, new_config_name, model, temperature, template, use_fallback, outcome) ==
    /\ Idle(m)
    /\ now < MaxTime
    /\ now' = now + 1
    /\ IF new_config_name = ""
       THEN /\ ui' = [ui EXCEPT ![m] = Submitted(@, "create", new_config_name, "name_required")]
            /\ UNCHANGED <<file, search_configs, hist>>
       ELSE IF CreateRefuses(search_configs[m], new_config_name)
       THEN /\ ui' = [ui EXCEPT ![m] = Submitted(@, "create", new_config_name, "duplicate")]
            /\ UNCHANGED <<file, search_configs, hist>>
       ELSE LET store == Put(search_configs[m], new_config_name,
                             NewConfig(model, temperature, template, use_fallback, now'))
            IN /\ search_configs' = [search_configs EXCEPT ![m] = store]
               /\ file' = WriteFile(file, store, outcome)
               /\ hist' = [hist EXCEPT ![m][new_config_name] =
                             [NoHistory EXCEPT !.zero = TRUE]]
               /\ ui' = [ui EXCEPT ![m] =
                           Submitted(@, "create", new_config_name, WriteMessage(outcome))]
    /\ UNCHANGED <<sessions, active_config_name, call, tally, lookup>>

\* an edit that also starts the metrics afresh
EditedConfig_ResetsMetrics(config, model, temperature, template, use_fallback, t) ==
    [key \in DOMAIN config \cup {"use_fallback"} |->
        CASE key = "model" -> model
          [] key = "temperature" -> temperature
          [] key = "user_prompt_template" -> template
          [] key = "use_fallback" -> use_fallback
          [] key = "updated_at" -> t
          [] key = "metrics" -> ZeroMetrics
          [] OTHER -> config[key]]

\* the loop over edited_config of "Update Configuration": the six edited
\* keys are set (the description and the system prompt are left as shown)
EditedConfig(config, model, temperature, template, use_fallback, t) ==
    [key \in DOMAIN config \cup {"use_fallback"} |->
        CASE key = "model" -> model
          [] key = "temperature" -> temperature
          [] key = "user_prompt_template" -> template
          [] key = "use_fallback" -> use_fallback
          [] key = "updated_at" -> t
          [] OTHER -> config[key]]

\* "Update Configuration": the selected configuration is changed in the
\* store, then the store is written to the file
UpdateConfiguration(m, selected_config, model, temperature, template, use_fallback, outcome) ==
    /\ Idle(m)
    /\ now < MaxTime
    /\ selected_config \in DOMAIN search_configs[m]
    /\ now' = now + 1
    /\ LET store == [search_configs[m] EXCEPT ![selected_config] =
                        EditedConfig(@, model, temperature, template, use_fallback, now')]
       IN /\ search_configs' = [search_configs EXCEPT ![m] = store]
          /\ file' = WriteFile(file, store, outcome)
    /\ ui' = [ui EXCEPT ![m] =
                Submitted(@, "update", selected_config, WriteMessage(outcome))]
    /\ UNCHANGED <<sessions, active_config_name, call, hist, tally, lookup>>

(***************************************************************************)
(* Company lookup: get_company_info, _parse_company_response and           *)
(* _normalize_company_data of JobDiscoveryManager.                         *)
(***************************************************************************)
UnknownName == <<"U", "n", "k", "n", "o", "w", "n">>
NotAvailable == <<"N", "/", "A">>

\* the fields of a normalized company record
CompanyFields ==
    {"name", "founding_year", "size", "funding", "financial_performance",
     "headquarters"}

\* the defaults of the .get calls of _normalize_company_data
CompanyDefault(key) ==
    IF key = "name" THEN JStr(UnknownName) ELSE JStr(NotAvailable)

\* the empty dict {}
EmptyDict == JObj([key \in {} |-> JNull])

\* a record that holds only the fields the company came with
NormalizeCompanyRecord_PresentOnly(company) ==
    JObj([key \in CompanyFields \cap DOMAIN company.f |-> company.f[key]])

\* the dict literal built from company.get(field, default)
NormalizeCompanyRecord(company) ==
    JObj([key \in CompanyFields |-> DictGet(company, key, CompanyDefault(key))])

\* the loop `for company in data` from element i on: the elements that are
\* dicts, normalized, in order
RECURSIVE NormalizeCompaniesFrom(_, _)
NormalizeCompaniesFrom(data, i) ==
    IF i > Len(data) THEN <<>>
    ELSE IF IsDict(data[i])
    THEN <<NormalizeCompanyRecord(data[i])>> \o NormalizeCompaniesFrom(data, i + 1)
    ELSE NormalizeCompaniesFrom(data, i + 1)

\* _normalize_company_data
NormalizeCompanyData(data) ==
    IF IsList(data)
    THEN JObj([companies |-> JList(NormalizeCompaniesFrom(data.l, 1))])
    ELSE IF IsDict(data) THEN NormalizeCompanyRecord(data)
    ELSE EmptyDict

\* re.search(r'\[\s*\{.*\}\s*\]', content, re.DOTALL): greedy, from the
\* first '[' that is followed by '{' to the last '}' that is followed by
\* ']'; on the texts of the model it matches the whole array, and only an
\* array whose first and last elements are objects
CompanyArrayRegexMatches(content) ==
    /\ content.style \in {"fenced", "embedded"}
    /\ IsList(content.value)
    /\ content.value.l # <<>>
    /\ IsDict(content.value.l[1])
    /\ IsDict(content.value.l[Len(content.value.l)])

\* the objects of a list, in order
RECURSIVE DictsFrom(_, _)
DictsFrom(l, i) ==
    IF i > Len(l) THEN <<>>
    ELSE IF IsDict(l[i]) THEN <<l[i]>> \o DictsFrom(l, i + 1)
    ELSE DictsFrom(l, i + 1)

\* an object one of whose values is itself an object
HasNestedObject(company) ==
    \E key \in DOMAIN company.f : IsDict(company.f[key])

\* re.search(r'\{[^{]*\}', content, re.DOTALL) and json.loads of the match:
\* the match runs from the first '{' that has a '}' before the next '{' to
\* the last '}' before the next '{'.  With a flat first object that is the
\* first object of the text; with a nested first object it is the inner
\* object and the closing brace of the outer one, which json.loads rejects
ObjectRegexMatch(content) ==
    LET first == IF IsDict(content.value) THEN content.value
                 ELSE IF IsList(content.value)
                         /\ DictsFrom(content.value.l, 1) # <<>>
                 THEN Head(DictsFrom(content.value.l, 1))
                 ELSE None
    IN IF content.style \notin {"fenced", "embedded"} THEN None
       ELSE IF first = None THEN None
       ELSE IF HasNestedObject(first) THEN None
       ELSE first

\* the parsing attempt of _parse_company_response that returns: json.loads
\* of the content, of the array match, of the object match, or none of them
ParseCompanyStrategy(content) ==
    IF ~JsonLoadsFails(content) THEN "direct"
    ELSE IF CompanyArrayRegexMatches(content) THEN "array"
    ELSE IF ObjectRegexMatch(content) # None THEN "object"
    ELSE "none"

\* the three parsing attempts of _parse_company_response on the content:
\* the value json.loads returned, or None when all three failed
ParseCompanyContent(content) ==
    IF ~JsonLoadsFails(content) THEN content.value
    ELSE IF CompanyArrayRegexMatches(content) THEN content.value
    ELSE ObjectRegexMatch(content)

\* the second request of _parse_company_response, from its response on:
\* the value json.loads returned, or None; an exception of the request or
\* of the subscripts is caught by the except clause around it
ReparseCompanyContent(event) ==
    LET gw == MakeApiRequest(event) IN
    IF gw.raised \/ InvalidResponse(gw.result) THEN None
    ELSE IF gw.result.choices = <<>> THEN None
    ELSE IF JsonLoadsFails(gw.result.choices[1]) THEN None
    ELSE gw.result.choices[1].value

\* what _parse_company_response returns for what was parsed
CompanyResult(parsed) ==
    IF parsed = None THEN EmptyDict ELSE NormalizeCompanyData(parsed)

\* how the body of a try block ends: with an exception or with a value
Raises == [raised |-> TRUE, value |-> None]
Returns(value) == [raised |-> FALSE, value |-> value]

\* an except clause that lets the exception through
CompanyExcept_Propagates(body) == body

\* the except clause of get_company_info: the exception is logged and {}
\* is returned
CompanyExcept(body) ==
    IF body.raised THEN Returns(EmptyDict) ELSE body

\* what the first response of a lookup was: the request raised, returned
\* None or an empty body ("failed"), a body without the key 'choices', a
\* body whose list of choices is empty, or a message content
ResponseKind(gw) ==
    IF gw.raised THEN "raised"
    ELSE IF gw.result = None \/ DOMAIN gw.result = {} THEN "failed"
    ELSE IF "choices" \notin DOMAIN gw.result THEN "no_choices"
    ELSE IF gw.result.choices = <<>> THEN "no_first_choice"
    ELSE "content"

\* the content of the response to the second request, None without one
SecondContent(event) ==
    LET gw == MakeApiRequest(event) IN
    IF gw.raised \/ InvalidResponse(gw.result) THEN None
    ELSE IF gw.result.choices = <<>> THEN None
    ELSE gw.result.choices[1]

\* a get_company_info call that has ended: the kind of the first response,
\* its content, the attempt that parsed it ("reformat": the second
\* request), the value parsed, the requests sent, the content of the second
\* response, and how the call ended
Looked(response, content, strategy, parsed, requests, second, outcome) ==
    [state |-> "DONE", response |-> response, content |-> content,
     strategy |-> strategy, parsed |-> parsed, requests |-> requests,
     reparsed |-> requests = 2, second |-> second,
     raised |-> outcome.raised, result |-> outcome.value]

\* get_company_info, from the response of the gateway on: `not result`
\* returns {}; the subscripts result['choices'][0] raise on a body without
\* the key or without a first choice; otherwise the content is parsed, and
\* when the three attempts fail the second request is sent
GetCompanyInfo(event) ==
    /\ sessions # {}
    /\ lookup.state \in {"NONE", "DONE"}
    /\ LET gw == MakeApiRequest(event)
           response == ResponseKind(gw)
       IN lookup' =
          IF response = "failed"
          THEN Looked(response, None, "none", None, 1, None,
                      CompanyExcept(Returns(EmptyDict)))
          ELSE IF response # "content"
          THEN Looked(response, None, "none", None, 1, None, CompanyExcept(Raises))
          ELSE LET content == gw.result.choices[1]
                   parsed == ParseCompanyContent(content)
               IN IF parsed = None
                  THEN [state |-> "PARSING", content |-> content]
                  ELSE Looked(response, content, ParseCompanyStrategy(content),
                              parsed, 1, None,
                              CompanyExcept(Returns(CompanyResult(parsed))))
    /\ UNCHANGED storeVars

\* the response to the second request arrives and get_company_info returns
ParseFallbackResponse(event) ==
    /\ lookup.state = "PARSING"
    /\ LET parsed == ReparseCompanyContent(event) IN
       lookup' = Looked("content", lookup.content,
                        IF parsed = None THEN "none" ELSE "reformat",
                        parsed, 2, SecondContent(event),
                        CompanyExcept(Returns(CompanyResult(parsed))))
    /\ UNCHANGED storeVars

\* the company records and the JSON values a response may hold
FullCompany ==
    JObj([name |-> JStr(<<"A", "c", "m", "e">>),
          founding_year |-> JNum(1999),
          size |-> JStr(<<"5", "0">>),
          funding |-> JNull,
          financial_performance |-> JStr(<<"u", "p">>),
          headquarters |-> JStr(<<"O", "s", "l", "o">>)])

NameOnlyCompany == JObj([name |-> JStr(<<"I", "n", "i", "t", "e", "c", "h">>)])

\* no name, and a field that is not of the record
NoNameCompany == JObj([size |-> JNum(7), ticker |-> JStr(<<"X">>)])

\* a company whose funding is an object
NestedCompany ==
    JObj([name |-> JStr(<<"H", "o", "o", "l", "i">>),
          funding |-> JObj([round |-> JStr(<<"A">>)])])

CompanyValues ==
    { JList(<<>>),
      JList(<<FullCompany>>),
      JList(<<FullCompany, NameOnlyCompany>>),
      JList(<<NoNameCompany, FullCompany>>),
      JList(<<FullCompany, JNum(3)>>),
      JList(<<JNum(3), NameOnlyCompany>>),
      JList(<<JNum(3)>>),
      JList(<<NestedCompany, NameOnlyCompany>>),
      FullCompany, NameOnlyCompany, NoNameCompany, NestedCompany,
      JNum(3), JNull }

CompanyContents ==
    {Bare(v) : v \in CompanyValues}
    \cup {Fenced(v) : v \in CompanyValues}
    \cup {Embedded(v) : v \in CompanyValues}
    \cup {Prose}

CompanyEvents ==
    {[kind |-> "status", body |-> None]}
    \cup {[kind |-> k, body |-> None] : k \in TransportErrors}
    \cup {[kind |-> "ok", body |-> ErrorBody],
          [kind |-> "ok", body |-> Completion(<<>>)]}
    \cup {[kind |-> "ok", body |-> Completion(<<c>>)] : c \in CompanyContents}

(***************************************************************************)
(* Interview preparation: get_company_info of InterviewPrepManager, with   *)
(* CompanyReview.from_dict and InterviewProcess.from_dict.  The call sends *)
(* two requests, for the reviews and for the interview process, and parses *)
(* both responses after the second.                                        *)
(***************************************************************************)
\* the keys from_dict reads with data[...]
ReviewRequired ==
    {"overall_rating", "work_life_balance", "compensation", "career_growth",
     "culture", "pros", "cons", "last_updated"}

InterviewRequired ==
    {"role", "difficulty", "duration", "stages", "common_questions", "tips",
     "last_updated"}

\* InterviewPrepManager._make_api_request: the body of a 200 response, None
\* for any other status and for any exception
PrepMakeApiRequest(event) ==
    IF event.kind = "ok" THEN event.body ELSE None

\* extract_json: the object of a fenced block that starts with '{', else
\* the text from the first '{' to the first '}' that ends the text or a
\* line; ValueError without a match, JSONDecodeError re-raised.  On the
\* one-line texts of the model the second pattern matches only a bare
\* object
ExtractJson(content) ==
    IF content.style = "fenced" /\ IsDict(content.value)
    THEN Returns(content.value)
    ELSE IF content.style = "bare" /\ IsDict(content.value)
    THEN Returns(content.value)
    ELSE Raises

\* data[key] for each key of the class: KeyError when one is absent
FromDictRaises(data, required) ==
    \E key \in required : key \notin DOMAIN data.f

\* response.get('citations', []) of a body without citations
NoSources == JList(<<>>)

\* CompanyReview.from_dict(review_data).__dict__ with the sources
ReviewDict(data) ==
    JObj([key \in ReviewRequired \cup {"additional_metrics", "sources"} |->
             IF key = "sources" THEN NoSources
             ELSE IF key = "additional_metrics"
             THEN DictGet(data, "additional_metrics", EmptyDict)
             ELSE data.f[key]])

\* InterviewProcess.from_dict(interview_data).__dict__ with the sources
InterviewDict(data) ==
    JObj([key \in InterviewRequired \cup {"sources"} |->
             IF key = "sources" THEN NoSources ELSE data.f[key]])

\* one of the two parsing blocks: the first choice of the response, its
\* JSON object, and the record of the class built from it
PrepParse(result, required) ==
    IF result.choices = <<>> THEN [data |-> None, record |-> Raises]
    ELSE LET extracted == ExtractJson(result.choices[1]) IN
         IF extracted.raised THEN [data |-> None, record |-> Raises]
         ELSE IF FromDictRaises(extracted.value, required)
         THEN [data |-> extracted.value, record |-> Raises]
         ELSE [data |-> extracted.value,
               record |-> Returns(IF required = ReviewRequired
                                  THEN ReviewDict(extracted.value)
                                  ELSE InterviewDict(extracted.value))]

\* a result that keeps the review when the interview block failed
PrepResult_Partial(review, interview) ==
    IF review.raised THEN None
    ELSE IF interview.raised THEN JObj([company_review |-> review.value])
    ELSE JObj([company_review |-> review.value,
               interview_process |-> interview.value])

\* what get_company_info returns after the two blocks: every except clause
\* returns None
PrepResult(review, interview) ==
    IF review.raised \/ interview.raised THEN None
    ELSE JObj([company_review |-> review.value,
               interview_process |-> interview.value])

\* an InterviewPrepManager.get_company_info call that has returned: the
\* two response bodies, the objects extracted from them, and the result
Prepared(review_result, interview_result, review_data, interview_data, result) ==
    [state |-> "PREPARED", review_result |-> review_result,
     interview_result |-> interview_result, review_data |-> review_data,
     interview_data |-> interview_data, result |-> result]

\* get_company_info up to the response to the first request
GetReviews(event) ==
    /\ lookup.state \in {"NONE", "PREPARED"}
    /\ LET review_result == PrepMakeApiRequest(event) IN
       lookup' =
          IF InvalidResponse(review_result)
          THEN Prepared(review_result, None, None, None, None)
          ELSE [state |-> "INTERVIEW", review_result |-> review_result]
    /\ UNCHANGED storeVars

\* get_company_info from the response to the second request on
GetInterviewProcess(event) ==
    /\ lookup.state = "INTERVIEW"
    /\ LET review_result == lookup.review_result
           interview_result == PrepMakeApiRequest(event)
       IN lookup' =
          IF InvalidResponse(interview_result)
          THEN Prepared(review_result, interview_result, None, None, None)
          ELSE LET review == PrepParse(review_result, ReviewRequired)
                   interview == PrepParse(interview_result, InterviewRequired)
               IN IF review.record.raised
                  THEN Prepared(review_result, interview_result, review.data,
                                None, PrepResult(review.record, Raises))
                  ELSE Prepared(review_result, interview_result, review.data,
                                interview.data,
                                PrepResult(review.record, interview.record))
    /\ UNCHANGED storeVars

\* the objects a response may hold
FullReview ==
    JObj([overall_rating |-> JNum(4), work_life_balance |-> JNum(3),
          compensation |-> JNum(5), career_growth |-> JNum(4),
          culture |-> JNum(4), pros |-> JList(<<JStr(<<"p">>)>>),
          cons |-> JList(<<>>),
          additional_metrics |-> JObj([diversity |-> JNum(4)]),
          last_updated |-> JStr(<<"2", "0", "2", "4">>)])

\* a review without the optional additional_metrics
PlainReview ==
    JObj([key \in ReviewRequired |-> FullReview.f[key]])

\* a review without pros, and one whose cons is null
NoProsReview ==
    JObj([key \in ReviewRequired \ {"pros"} |-> FullReview.f[key]])

NullConsReview ==
    JObj([key \in ReviewRequired |->
             IF key = "cons" THEN JNull ELSE FullReview.f[key]])

FullInterview ==
    JObj([role |-> JStr(<<"D", "S">>), difficulty |-> JNum(4),
          duration |-> JStr(<<"2", "w">>),
          stages |-> JList(<<JStr(<<"s">>)>>),
          common_questions |-> JList(<<JStr(<<"q">>)>>),
          tips |-> JList(<<>>),
          last_updated |-> JStr(<<"2", "0", "2", "4">>)])

NoTipsInterview ==
    JObj([key \in InterviewRequired \ {"tips"} |-> FullInterview.f[key]])

ReviewValues ==
    {FullReview, PlainReview, NoProsReview, NullConsReview, FullInterview,
     JList(<<FullReview>>)}

InterviewValues ==
    {FullInterview, NoTipsInterview, PlainReview, JNum(3)}

PrepContents(values) ==
    {Bare(v) : v \in values}
    \cup {Fenced(v) : v \in values}
    \cup {Embedded(v) : v \in values}
    \cup {Prose}

PrepEvents(values) ==
    {[kind |-> "status", body |-> None]}
    \cup {[kind |-> k, body |-> None] : k \in TransportErrors}
    \cup {[kind |-> "ok", body |-> ErrorBody],
          [kind |-> "ok", body |-> Completion(<<>>)]}
    \cup {[kind |-> "ok", body |-> Completion(<<c>>)] : c \in PrepContents(values)}

(***************************************************************************)
(* Specifications.  Spec: one UI session that searches, with every gateway *)
(* event.  SharedSpec: two UI sessions on the same configuration file that *)
(* search and use the configuration tab, with file writes that may fail.   *)
(***************************************************************************)
Open(m) == \E env_active \in EnvActiveNames : OpenSession(m, env_active, "ok")

Start(m) == \E requested \in {""} \cup DOMAIN search_configs[m] : StartSearch(m, requested)

\* every gateway event, with writes that succeed
Primary(m) ==
    \E event \in GatewayEvents, duration \in Durations :
        PrimaryResponse(m, event, duration, "ok")

Fallback(m) == \E event \in GatewayEvents : FallbackResponse(m, event)

Activate(m) == \E selected_config \in Names : SetActive(m, selected_config)

Create(m) ==
    \E new_config_name \in FormNames, model \in FormModels,
       temperature \in FormTemperatures, template \in FormTemplates,
       use_fallback \in BOOLEAN, outcome \in WriteOutcomes :
        CreateConfiguration(m, new_config_name, model, temperature, template,
                            use_fallback, outcome)

Update(m) ==
    \E selected_config \in Names, model \in FormModels,
       temperature \in FormTemperatures, template \in FormTemplates,
       use_fallback \in BOOLEAN, outcome \in WriteOutcomes :
        UpdateConfiguration(m, selected_config, model, temperature, template,
                            use_fallback, outcome)

Next ==
    \E m \in {1} :
        \/ Open(m)
        \/ Start(m)
        \/ Primary(m)
        \/ Fallback(m)

Spec == Init /\ [][Next]_vars

\* the gateway events of SharedSpec: a failure, an unparsable text, a
\* list with a valid listing, an empty list
SharedEvents ==
    { [kind |-> "status", body |-> None],
      [kind |-> "ok", body |-> Completion(<<Prose>>)],
      [kind |-> "ok", body |-> Completion(<<Bare(JList(<<GoodJob>>))>>)],
      [kind |-> "ok", body |-> Completion(<<Bare(JList(<<>>))>>)] }

SharedPrimary(m) ==
    \E event \in SharedEvents, duration \in Durations, outcome \in WriteOutcomes :
        PrimaryResponse(m, event, duration, outcome)

SharedFallback(m) == \E event \in SharedEvents : FallbackResponse(m, event)

\* two sessions that search and use the configuration tab
SharedNext ==
    \E m \in Managers :
        \/ OpenSession(m, "default", "ok")
        \/ Start(m)
        \/ SharedPrimary(m)
        \/ SharedFallback(m)
        \/ Activate(m)
        \/ Create(m)
        \/ Update(m)

SharedSpec == Init /\ [][SharedNext]_vars

(***************************************************************************)
(* StoreSpec: the life of the configuration file.  The first session may   *)
(* find no file, an unparsable file, or a document with or without the     *)
(* configuration "default"; every write may fail or be cut short.          *)
(***************************************************************************)
\* a document whose only configuration is "custom"
WithoutDefault ==
    [name \in {"custom"} |-> NewConfig("poe", 10, PlainTemplate, TRUE, 0)]

\* the files the first session may find
StoreFiles ==
    {NoFile, Corrupt, Document(EmptyStore), Document(WithoutDefault),
     Document(default_configs(0))}

StoreInit ==
    /\ file \in StoreFiles
    /\ NothingOpen

StoreOpen(m) == \E outcome \in StoreWriteOutcomes : OpenSession(m, "default", outcome)

StorePrimary(m) ==
    \E event \in SharedEvents, duration \in Durations, outcome \in StoreWriteOutcomes :
        PrimaryResponse(m, event, duration, outcome)

StoreCreate(m) ==
    \E new_config_name \in FormNames, model \in FormModels,
       temperature \in FormTemperatures, template \in {PlainTemplate},
       use_fallback \in {FALSE}, outcome \in StoreWriteOutcomes :
        CreateConfiguration(m, new_config_name, model, temperature, template,
                            use_fallback, outcome)

StoreUpdate(m) ==
    \E selected_config \in Names, model \in FormModels,
       temperature \in FormTemperatures, template \in {PlainTemplate},
       use_fallback \in {FALSE}, outcome \in StoreWriteOutcomes :
        UpdateConfiguration(m, selected_config, model, temperature, template,
                            use_fallback, outcome)

\* the fallback search changes neither the store nor the file: one event
StoreFallback(m) == FallbackResponse(m, [kind |-> "status", body |-> None])

StoreNext ==
    \E m \in StoreManagers :
        \/ StoreOpen(m)
        \/ Start(m)
        \/ StorePrimary(m)
        \/ StoreFallback(m)
        \/ StoreCreate(m)
        \/ StoreUpdate(m)

StoreSpec == StoreInit /\ [][StoreNext]_vars

(***************************************************************************)
(* ActiveSpec: one session that searches under a requested or the active   *)
(* configuration name, known to the store or not, and sets the active      *)
(* configuration.  The file may hold a configuration "custom" made with    *)
(* the form: another model, the highest temperature, the fallback on; or   *)
(* it may hold that configuration alone.                                   *)
(***************************************************************************)
CustomFile ==
    Put(default_configs(0), "custom", NewConfig("poe", 10, PlainTemplate, TRUE, 0))

ActiveInit ==
    /\ file \in {Document(default_configs(0)), Document(CustomFile),
                 Document(WithoutDefault)}
    /\ NothingOpen

\* a search under the active name, a name of the store, or "retired"
ActiveStart(m) ==
    \E requested \in {"", "retired"} \cup DOMAIN search_configs[m] :
        StartSearch(m, requested)

ActivePrimary(m) ==
    \E event \in SharedEvents, duration \in Durations :
        PrimaryResponse(m, event, duration, "ok")

ActiveNext ==
    \E m \in {1} :
        \/ Open(m)
        \/ ActiveStart(m)
        \/ ActivePrimary(m)
        \/ SharedFallback(m)
        \/ Activate(m)

ActiveSpec == ActiveInit /\ [][ActiveNext]_vars

(***************************************************************************)
(* CompanySpec: one session that looks companies up.                       *)
(***************************************************************************)
CompanyLookup == \E event \in CompanyEvents : GetCompanyInfo(event)

CompanyReparse == \E event \in CompanyEvents : ParseFallbackResponse(event)

CompanyNext ==
    \/ OpenSession(1, "default", "ok")
    \/ CompanyLookup
    \/ CompanyReparse

CompanySpec == Init /\ [][CompanyNext]_vars

(***************************************************************************)
(* PrepSpec: interview preparation lookups.                                *)
(***************************************************************************)
PrepReviews == \E event \in PrepEvents(ReviewValues) : GetReviews(event)

PrepInterview ==
    \E event \in PrepEvents(InterviewValues) : GetInterviewProcess(event)

PrepNext ==
    \/ PrepReviews
    \/ PrepInterview

PrepSpec == Init /\ [][PrepNext]_vars

(***************************************************************************)
(* Properties.                                                             *)
(***************************************************************************)
\* the number of fallback requests the call has sent to the gateway
FallbackRequests(c) ==
    Cardinality({i \in DOMAIN c.requests : c.requests[i].purpose = "fallback"})

\* the configuration the call of manager m runs with
ConfigOf(m) == search_configs[m][call[m].config_name]

\* the rational average equals sum / count
IsMean(average, sum, count) == average[1] * count = sum * average[2]

\* C1: starting from all-zero metrics, after N searches of a configuration
\* that each reached the metrics computation, average_response_time is the
\* mean of the N durations and average_jobs_returned the mean of the N
\* valid-listing counts.
C1_AveragesAreMeans ==
    \A m \in sessions : \A name \in DOMAIN search_configs[m] :
        LET h == hist[m][name]
            metrics == search_configs[m][name].metrics
        IN (h.zero /\ h.reached > 0 /\ h.calls = h.reached)
           => /\ IsMean(metrics.average_response_time, h.sum_duration, h.reached)
              /\ IsMean(metrics.average_jobs_returned, h.sum_jobs, h.reached)

\* C2: every search that has returned, whatever its outcome, has called
\* save_search_metrics exactly once, has raised total_runs by exactly one
\* and has folded its duration into the metrics.
C2_EverySearchSavesOnce ==
    \A m \in sessions :
        call[m].state = "DONE"
        => /\ call[m].saves = 1
           /\ ConfigOf(m).metrics.total_runs = call[m].runs_before + 1
           /\ call[m].duration \in Durations

\* C3: no listing returned by a search, primary or fallback, has a
\* placeholder company (compared case-insensitively, as returned).
C3_NoPlaceholderCompany ==
    \A m \in sessions :
        call[m].state = "DONE"
        => \A i \in DOMAIN call[m].result :
              Lower(call[m].result[i].company) \notin PlaceholderCompanies

\* C4: every candidate behind a returned listing has all the fields of a
\* JobListing: a candidate that lacks one is never returned.
C4_MissingFieldExcluded ==
    \A m \in sessions :
        call[m].state = "DONE"
        => \A i \in DOMAIN call[m].kept :
              JobListingFields \subseteq DOMAIN call[m].candidates[call[m].kept[i]].f

\* C5: with use_fallback true, a search whose primary response could not
\* be parsed has made exactly one fallback search when it returns.
C5_ParseFailureFallsBack ==
    \A m \in sessions :
        ( /\ call[m].state = "DONE"
          /\ call[m].primary = "parse_failure"
          /\ "use_fallback" \in DOMAIN ConfigOf(m)
          /\ ConfigOf(m).use_fallback )
        => FallbackRequests(call[m]) = 1

\* the listings _fallback_job_search keeps are its candidates with company
\* and title, normalized, in order
ResultIsFallbackOutput(c) ==
    /\ c.fallback # "normalized" => c.result = <<>>
    /\ Len(c.result) = Len(c.kept)
    /\ \A i \in DOMAIN c.kept :
          /\ "company" \in DOMAIN c.candidates[c.kept[i]].f
          /\ "title" \in DOMAIN c.candidates[c.kept[i]].f
          /\ c.result[i].company = Strip(c.candidates[c.kept[i]].f.company.s)
          /\ "metadata" \notin DOMAIN c.result[i]
    /\ \A j \in DOMAIN c.candidates :
          ( /\ IsDict(c.candidates[j])
            /\ {"company", "title"} \subseteq DOMAIN c.candidates[j].f
            /\ c.fallback = "normalized" )
          => \E i \in DOMAIN c.kept : c.kept[i] = j

C7_FallbackOnlyWhenFlagTrue ==
    \A m \in sessions :
        /\ FallbackRequests(call[m]) > 0
           => /\ call[m].primary = "normalized"
              /\ call[m].primary_count = 0
              /\ "use_fallback" \in DOMAIN ConfigOf(m)
              /\ ConfigOf(m).use_fallback
        /\ ( /\ call[m].state = "DONE"
             /\ call[m].primary = "normalized"
             /\ call[m].primary_count = 0
             /\ "use_fallback" \in DOMAIN ConfigOf(m)
             /\ ~ConfigOf(m).use_fallback )
           => /\ call[m].result = <<>>
              /\ FallbackRequests(call[m]) = 0

\* C7, amended: a fallback request is made only if the primary
\* normalization produced zero valid listings and the use_fallback flag of
\* the configuration is true or absent (an absent flag counts as true);
\* with the flag false and zero valid listings the result is empty and no
\* fallback request is made.
C7_FallbackOnlyWhenFlagTrueOrAbsent ==
    \A m \in sessions :
        /\ FallbackRequests(call[m]) > 0
           => /\ call[m].primary = "normalized"
              /\ call[m].primary_count = 0
              /\ \/ "use_fallback" \notin DOMAIN ConfigOf(m)
                 \/ ConfigOf(m).use_fallback
        /\ ( /\ call[m].state = "DONE"
             /\ call[m].primary = "normalized"
             /\ call[m].primary_count = 0
             /\ "use_fallback" \in DOMAIN ConfigOf(m)
             /\ ~ConfigOf(m).use_fallback )
           => /\ call[m].result = <<>>
              /\ FallbackRequests(call[m]) = 0

\* a search on a configuration without the use_fallback key has sent the
\* fallback request after an empty primary result
C7_Witness ==
    \E m \in sessions :
        /\ call[m].state = "FALLBACK_SEARCH"
        /\ call[m].primary_count = 0
        /\ "use_fallback" \notin DOMAIN ConfigOf(m)
        /\ FallbackRequests(call[m]) = 1

\* C8: _make_api_request never raises to its caller.
C8_GatewayNeverRaises == \A m \in sessions : ~call[m].gateway_raised

\* C9: write-through: a step of a search that changes the store in memory
\* and whose writes all succeed leaves the file equal to the store.
C9_WriteThrough ==
    [][\A m \in sessions :
          ( /\ call'[m] # call[m]
            /\ call'[m].written = call'[m].saves
            /\ search_configs'[m] # search_configs[m] )
          => file' = Document(search_configs'[m])]_vars

\* C10: with two sessions on one file no metric update is lost: after a
\* step of a search that leaves no search in flight, the persisted
\* total_runs of a configuration whose searches all saved their metrics is
\* the number of searches completed against it, and every configuration
\* that was in the file is still in the file.
C10_NoLostUpdate ==
    [][(\E m \in Managers : call'[m] # call[m])
       => /\ (\A m \in Managers : call'[m].state \in {"NONE", "DONE"})
             => \A name \in DOMAIN file'.store :
                   tally'[name].unsaved = 0
                   => file'.store[name].metrics.total_runs = tally'[name].completed
          /\ \A name \in DOMAIN file.store : name \in DOMAIN file'.store]_vars

\* manager m is opened by the step
Opens(m) == m \notin sessions /\ m \in sessions'

\* C11: saving the store is atomic: a step that finds a complete document
\* in the configuration file, whatever happens to its write, leaves in the
\* file either that document or the complete store of a session, never an
\* empty or partial text.
C11_AtomicSave ==
    [][file.kind = "document"
       => \/ file' = file
          \/ \E m \in sessions' : file' = Document(search_configs'[m])]_vars

\* C12: whatever the file holds when it is loaded (nothing, an unparsable
\* text, any JSON document), the store of a session holds a configuration
\* and no search raises for lack of one; and a load that finds no file
\* leaves the built-in defaults in the file, unless the write fails and
\* the failure is logged.
C12_AlwaysAConfiguration ==
    /\ [](\A m \in sessions :
            /\ DOMAIN search_configs[m] # {}
            /\ ~call[m].raised)
    /\ [][\A m \in Managers :
            (Opens(m) /\ file.kind = "absent")
            => \/ file' = Document(default_configs(now))
               \/ ~ui'[m].seeded]_vars

\* C13: a load that finds a file it cannot read or parse returns the
\* built-in defaults as the store and leaves the file as it is.
C13_CorruptFileLoadsDefaults ==
    [][\A m \in Managers :
          (Opens(m) /\ file.kind = "corrupt")
          => /\ search_configs'[m] = default_configs(now)
             /\ file' = file]_vars

\* a session was opened on an unparsable file: its store is the defaults
\* and the file is still the unparsable one
C13_Witness ==
    \E m \in sessions :
        /\ ui[m].loaded = "corrupt"
        /\ search_configs[m] = default_configs(0)
        /\ file = Corrupt
        /\ now = 0

\* C14: "Save Configuration" with a name the store already holds is
\* refused with an error and leaves the store, with every field of the
\* existing configuration, and the file unchanged (a store maps each name
\* to one configuration, so names stay unique).
C14_DuplicateCreateRefused ==
    [][\A m \in sessions :
          ( /\ ui'[m] # ui[m]
            /\ ui'[m].op = "create"
            /\ ui'[m].name \in DOMAIN search_configs[m] )
          => /\ ui'[m].message = "duplicate"
             /\ search_configs'[m] = search_configs[m]
             /\ file' = file]_vars

\* the form was submitted with the name of a configuration of the store
\* and showed the duplicate error
C14_Witness ==
    \E m \in sessions :
        /\ ui[m].op = "create"
        /\ ui[m].message = "duplicate"
        /\ ui[m].name \in DOMAIN search_configs[m]
        /\ file = Document(search_configs[m])

\* C15: a create, an edit or a save_search_metrics whose write of the file
\* fails leaves the store in memory as it was before the operation.
C15_FailedWriteLeavesStore ==
    [][\A m \in sessions :
          ( \/ ui'[m] # ui[m] /\ ui'[m].message = "write_error"
            \/ /\ call[m].state = "PRIMARY_SEARCH"
               /\ call'[m].saves = 1
               /\ call'[m].written = 0 )
          => search_configs'[m] = search_configs[m]]_vars

\* 0 <= successful_runs <= total_runs and both averages are >= 0
ValidMetrics(metrics) ==
    /\ 0 <= metrics.successful_runs
    /\ metrics.successful_runs <= metrics.total_runs
    /\ metrics.average_jobs_returned[1] >= 0
    /\ metrics.average_jobs_returned[2] > 0
    /\ metrics.average_response_time[1] >= 0
    /\ metrics.average_response_time[2] > 0

\* C16: after any sequence of searches, creates and edits, the metrics of
\* every configuration, in memory and in the file, satisfy
\* 0 <= successful_runs <= total_runs and have averages >= 0.
C16_MetricsInvariant ==
    /\ \A m \in sessions : \A name \in DOMAIN search_configs[m] :
          ValidMetrics(search_configs[m][name].metrics)
    /\ file.kind = "document"
       => \A name \in DOMAIN file.store : ValidMetrics(file.store[name].metrics)

\* a configuration that was searched with a valid listing found, then
\* edited, is in the file with its metrics
C16_Witness ==
    \E m \in sessions : \E name \in DOMAIN search_configs[m] :
        /\ search_configs[m][name].metrics.total_runs = 1
        /\ search_configs[m][name].metrics.successful_runs = 1
        /\ ui[m].op = "update"
        /\ ui[m].name = name
        /\ file = Document(search_configs[m])

\* a candidate that is a valid listing: an object with every field of a
\* JobListing, a list of requirements, strings elsewhere, and a company
\* that is no placeholder
IsValidListing(job) ==
    /\ IsDict(job)
    /\ JobListingFields \subseteq DOMAIN job.f
    /\ \A key \in StrippedFields : IsStr(job.f[key])
    /\ IsList(job.f.requirements)
    /\ Lower(Strip(job.f.company.s)) \notin PlaceholderCompanies

\* the source value of a field of the candidate behind returned listing i
SourceOf(c, i, key) == DictGet(c.candidates[c.kept[i]], key, FieldDefault(key))

\* C17: partial success: when the parsed primary response is a list with
\* at least one valid listing among other elements, the search returns
\* every valid listing; a bad record never empties the result.
C17_PartialSuccess ==
    \A m \in sessions :
        ( /\ call[m].state = "DONE"
          /\ call[m].primary \in {"normalized", "normalize_raised"}
          /\ call[m].fallback = "none" )
        => \A i \in DOMAIN call[m].candidates :
              IsValidListing(call[m].candidates[i])
              => \E j \in DOMAIN call[m].kept : call[m].kept[j] = i

\* C18: the link of every returned listing, primary or fallback, begins
\* with http:// or https://; it is the stripped source link, with https://
\* prepended when that lacks the prefix; normalizing it again changes
\* nothing.
C18_LinksNormalized ==
    \A m \in sessions :
        call[m].state = "DONE"
        => \A i \in DOMAIN call[m].result :
              LET link == call[m].result[i].link
                  source == Strip(SourceOf(call[m], i, "link").s)
                  prefixed(l) == StartsWith(l, HttpPrefix) \/ StartsWith(l, HttpsPrefix)
              IN /\ prefixed(link)
                 /\ link = IF prefixed(source) THEN source ELSE HttpsPrefix \o source
                 /\ NormalizeLink(link) = link

\* a search has returned a listing whose source link had no prefix, with
\* https:// prepended
C18_Witness ==
    \E m \in sessions :
        /\ call[m].state = "DONE"
        /\ \E i \in DOMAIN call[m].result :
              /\ call[m].candidates[call[m].kept[i]] = PaddedLinkJob
              /\ call[m].result[i].link =
                    <<"h", "t", "t", "p", "s", ":", "/", "/", "a", ".", "i", "o">>

\* C19: requirements of every returned listing, primary or fallback, is a
\* list: a source list is kept as is, a source string s becomes [s], any
\* other source value becomes the empty list.
C19_RequirementsIsList ==
    \A m \in sessions :
        call[m].state = "DONE"
        => \A i \in DOMAIN call[m].result :
              LET requirements == call[m].result[i].requirements
                  source == SourceOf(call[m], i, "requirements")
              IN /\ IsList(source) => requirements = source.l
                 /\ IsStr(source) => requirements = <<source>>
                 /\ (~IsList(source) /\ ~IsStr(source)) => requirements = <<>>

\* a search has returned a listing whose source requirements was a string,
\* as the one-element list of that string
C19_Witness ==
    \E m \in sessions :
        /\ call[m].state = "DONE"
        /\ \E i \in DOMAIN call[m].result :
              /\ call[m].candidates[call[m].kept[i]] = StringRequirementsJob
              /\ call[m].result[i].requirements = <<JStr(<<"S", "Q", "L">>)>>

\* the record is the company with exactly the six fields: a field the
\* company has keeps its value, the name defaults to "Unknown" and any
\* other field to "N/A"
IsNormalizedCompany(record, company) ==
    /\ IsDict(record)
    /\ DOMAIN record.f = CompanyFields
    /\ \A key \in CompanyFields :
          record.f[key] =
             IF key \in DOMAIN company.f THEN company.f[key]
             ELSE IF key = "name" THEN JStr(UnknownName)
             ELSE JStr(NotAvailable)

\* C20: when the response of a company lookup parses to an array of
\* objects, get_company_info returns {companies: [...]} with one record per
\* object, in order, each with exactly the six fields, defaulted where
\* absent; when it parses to one object, it returns the normalized record
\* itself.
C20_CompaniesNormalized ==
    (lookup.state = "DONE" /\ lookup.parsed # None)
    => LET data == lookup.parsed
           result == lookup.result
       IN /\ (IsList(data) /\ \A i \in DOMAIN data.l : IsDict(data.l[i]))
             => /\ IsDict(result)
                /\ DOMAIN result.f = {"companies"}
                /\ IsList(result.f.companies)
                /\ Len(result.f.companies.l) = Len(data.l)
                /\ \A i \in DOMAIN data.l :
                      IsNormalizedCompany(result.f.companies.l[i], data.l[i])
          /\ IsDict(data) => IsNormalizedCompany(result, data)

\* a lookup whose response parsed to an array of two objects, the first
\* without a name, has returned the two records with the name defaulted
C20_Witness ==
    /\ lookup.state = "DONE"
    /\ lookup.parsed = JList(<<NoNameCompany, FullCompany>>)
    /\ Len(lookup.result.f.companies.l) = 2
    /\ lookup.result.f.companies.l[1].f.name = JStr(UnknownName)
    /\ lookup.result.f.companies.l[2].f.name = FullCompany.f.name

\* C21: get_company_info of JobDiscoveryManager never raises and never
\* returns None; when the request failed or raised, when the response has
\* no 'choices' or no first choice, and when every parsing attempt, the
\* second request included, failed, it returns the empty dict {}.
C21_LookupReturnsADict ==
    lookup.state = "DONE"
    => /\ ~lookup.raised
       /\ lookup.result # None
       /\ IsDict(lookup.result)
       /\ (lookup.response # "content" \/ lookup.strategy = "none")
          => lookup.result = EmptyDict

\* a lookup whose response had no 'choices', so that the subscript raised
\* inside get_company_info, has returned {}
C21_Witness ==
    /\ lookup.state = "DONE"
    /\ lookup.response = "no_choices"
    /\ ~lookup.raised
    /\ lookup.result = EmptyDict

\* the record of the result carries every key of the class with the value
\* the parsed object has for it
CarriesFields(record, data, required) ==
    /\ IsDict(record)
    /\ IsDict(data)
    /\ \A key \in required :
          /\ key \in DOMAIN data.f
          /\ key \in DOMAIN record.f
          /\ record.f[key] = data.f[key]

\* the parsed object is there and has every key of the class
HasFields(data, required) ==
    /\ data # None
    /\ IsDict(data)
    /\ required \subseteq DOMAIN data.f

\* C22: get_company_info of InterviewPrepManager returns None, or a result
\* whose company_review and interview_process both carry every required
\* field with the value of the parsed payload; when either payload did not
\* parse or lacks a required field the call returns None.
C22_AllOrNothing ==
    lookup.state = "PREPARED"
    => /\ \/ lookup.result = None
          \/ /\ IsDict(lookup.result)
             /\ DOMAIN lookup.result.f = {"company_review", "interview_process"}
             /\ CarriesFields(lookup.result.f.company_review,
                              lookup.review_data, ReviewRequired)
             /\ CarriesFields(lookup.result.f.interview_process,
                              lookup.interview_data, InterviewRequired)
       /\ (~HasFields(lookup.review_data, ReviewRequired)
           \/ ~HasFields(lookup.interview_data, InterviewRequired))
          => lookup.result = None

\* a call whose review parsed with every field and whose interview payload
\* lacks the tips has returned None
C22_Witness ==
    /\ lookup.state = "PREPARED"
    /\ lookup.review_data = FullReview
    /\ lookup.interview_data = NoTipsInterview
    /\ lookup.result = None

\* the content wraps a JSON value in one of the four styles: the document
\* itself, a fenced block, an array inside prose, an object inside prose
IsWrappedJson(content) ==
    \/ content.style \in {"bare", "fenced"}
    \/ content.style = "embedded"
       /\ (IsList(content.value) \/ IsDict(content.value))

\* C23: the extraction of a company lookup returns the value the content
\* wraps, whichever of the four styles wraps it, nested values included:
\* the value parsed by the three attempts of _parse_company_response is
\* the wrapped value, without the second request.
C23_ExtractionRoundTrip ==
    (lookup.state = "DONE" /\ lookup.response = "content"
       /\ IsWrappedJson(lookup.content))
    => /\ lookup.strategy \in {"direct", "array", "object"}
       /\ lookup.parsed = lookup.content.value

\* the cascade of the claim on a content: direct parse, fenced block,
\* embedded array, embedded object; the attempt that succeeds first
CascadeStrategy(content) ==
    IF content.style = "bare" THEN "direct"
    ELSE IF content.style = "fenced" THEN "fenced"
    ELSE IF CompanyArrayRegexMatches(content) THEN "array"
    ELSE IF ObjectRegexMatch(content) # None THEN "object"
    ELSE "none"

\* the value that attempt yields
CascadeValue(content) ==
    IF CascadeStrategy(content) = "object" THEN ObjectRegexMatch(content)
    ELSE content.value

\* C24: the parsing attempts of a company lookup are tried in the order
\* direct parse, fenced block, embedded array, embedded object, and the
\* first that yields JSON determines the value; the second request is sent
\* only when all of them failed, at most once per lookup, and its response
\* is parsed by the direct parse only.
C24_ParserCascade ==
    /\ lookup.state = "PARSING"
       => CascadeStrategy(lookup.content) = "none"
    /\ (lookup.state = "DONE" /\ lookup.response = "content")
       => /\ lookup.requests \in {1, 2}
          /\ lookup.requests = 2 <=> CascadeStrategy(lookup.content) = "none"
          /\ lookup.requests = 1
             => lookup.parsed = CascadeValue(lookup.content)
          /\ lookup.requests = 2
             => IF lookup.second # None /\ lookup.second.style = "bare"
                THEN lookup.parsed = lookup.second.value
                ELSE lookup.parsed = None

\* the primary request ended in an HTTP status other than 200 or in an
\* exception of the transport
PrimaryFailed(c) == c.primary_event \in {"status"} \cup TransportErrors

\* C25: a search sends at most two gateway requests, the primary and the
\* fallback, each once; when the primary request ends in a transport or
\* HTTP failure the call sends no further request and returns [].
C25_BoundedRequests ==
    \A m \in sessions :
       LET c == call[m] IN
       /\ Len(c.requests) <= 2
       /\ \A i, j \in DOMAIN c.requests :
             c.requests[i].purpose = c.requests[j].purpose => i = j
       /\ PrimaryFailed(c)
          => /\ c.state = "DONE"
             /\ Len(c.requests) = 1
             /\ c.fallback = "none"
             /\ c.result = <<>>

\* a search whose primary request ended in a connection error has returned
\* [] after that one request, under a configuration with the fallback on
C25_Witness ==
    \E m \in sessions :
       /\ call[m].state = "DONE"
       /\ call[m].primary_event = "exc_response_none"
       /\ UseFallback(search_configs[m][call[m].config_name])
       /\ Len(call[m].requests) = 1
       /\ call[m].result = <<>>

\* C26: when a search sends the fallback request, its temperature is
\* strictly higher than the temperature of the primary request, which is
\* the temperature of the configuration (0..10 for 0.0..1.0).
C26_FallbackIsHotter ==
    \A m \in sessions :
       LET c == call[m] IN
       (Len(c.requests) = 2 /\ c.requests[1].temperature \in 0..10)
       => c.requests[2].temperature > c.requests[1].temperature

\* C27: the primary request of a search carries the model and the
\* temperature of the configuration the search runs with.
C27_RequestCarriesConfiguration ==
    \A m \in sessions :
       LET c == call[m] IN
       c.requests # <<>>
       => LET config == search_configs[m][c.config_name] IN
          /\ c.requests[1].purpose = "primary"
          /\ c.requests[1].model = config.model
          /\ c.requests[1].temperature = config.temperature

\* the keys "Update Configuration" may change
EditedKeys ==
    {"description", "model", "temperature", "system_prompt",
     "user_prompt_template", "use_fallback", "updated_at"}

\* the step is an "Update Configuration" of session m
IsUpdateStep(m) ==
    /\ ui'[m].op = "update"
    /\ now' # now
    /\ call' = call
    /\ search_configs'[m] # search_configs[m]

\* C28: an edit changes, in the edited configuration, only description,
\* model, temperature, system_prompt, user_prompt_template, use_fallback
\* and updated_at: its metrics and created_at and every other
\* configuration stay as they are; and over the searches, creates and
\* edits of a session no configuration leaves the store and total_runs and
\* successful_runs never decrease.
C28_MetricsNeverReset ==
    [][\A m \in sessions :
          LET old == search_configs[m]
              new == search_configs'[m]
          IN /\ \A name \in DOMAIN old :
                   /\ name \in DOMAIN new
                   /\ new[name].metrics.total_runs >= old[name].metrics.total_runs
                   /\ new[name].metrics.successful_runs
                         >= old[name].metrics.successful_runs
             /\ IsUpdateStep(m)
                => \A name \in DOMAIN old :
                      IF name = ui'[m].name
                      THEN \A key \in DOMAIN old[name] \ EditedKeys :
                              new[name][key] = old[name][key]
                      ELSE new[name] = old[name]]_vars

\* a configuration that was searched once and then edited has the model of
\* the form, its run, and the time of its creation
C28_Witness ==
    \E m \in sessions : \E name \in DOMAIN search_configs[m] :
        /\ ui[m].op = "update"
        /\ ui[m].name = name
        /\ search_configs[m][name].model = "poe"
        /\ search_configs[m][name].metrics.total_runs = 1
        /\ search_configs[m][name].created_at = 0
        /\ search_configs[m][name].updated_at = now
        /\ now > 0

\* C29: the metrics account for the primary search only.  When the primary
\* response has been handled, successful_runs of the configuration of the
\* call has grown by one exactly when the primary normalization ended with
\* at least one listing, average_jobs_returned was recomputed with the
\* primary count, and no other configuration changed; when the fallback
\* response has been handled, no configuration and no byte of the file has
\* changed, whatever the fallback returned.
C29_PrimaryOnlyAccounting ==
    [][\A m \in sessions :
          LET c == call[m]
              d == call'[m]
              name == c.config_name
              old == search_configs[m]
              new == search_configs'[m]
          IN /\ (c.state = "PRIMARY_SEARCH" /\ d.state # "PRIMARY_SEARCH")
                => /\ new[name].metrics.successful_runs =
                         old[name].metrics.successful_runs
                         + (IF d.primary = "normalized" /\ d.primary_count > 0
                            THEN 1 ELSE 0)
                   /\ d.primary = "normalized"
                      => new[name].metrics.average_jobs_returned =
                            AverageExpression(
                               old[name].metrics.average_jobs_returned,
                               new[name].metrics.total_runs, d.primary_count)
                   /\ \A other \in DOMAIN old \ {name} : new[other] = old[other]
             /\ (c.state = "FALLBACK_SEARCH" /\ d.state = "DONE")
                => /\ new = old
                   /\ file' = file]_vars

\* a search whose primary found nothing and whose fallback returned a
\* listing has ended with one run and no successful run
C29_Witness ==
    \E m \in sessions :
       LET c == call[m] IN
       /\ c.state = "DONE"
       /\ c.primary = "normalized"
       /\ c.primary_count = 0
       /\ c.fallback = "normalized"
       /\ c.result # <<>>
       /\ search_configs[m][c.config_name].metrics.total_runs = 1
       /\ search_configs[m][c.config_name].metrics.successful_runs = 0

\* C30: a search called with a name, given or active, that the store does
\* not hold runs with "default": every step of the call leaves the names of
\* the store, every configuration but "default" and the active name as they
\* are, does not raise, and the run is counted in the metrics of "default".
\* Setting the active configuration changes the active name and nothing of
\* the store, the file or the calls.
C30_UnknownNameRunsAsDefault ==
    [][\A m \in sessions :
          LET c == call[m]
              d == call'[m]
              old == search_configs[m]
              new == search_configs'[m]
          IN /\ (d # c /\ d.state # "NONE" /\ d.asked \notin DOMAIN old)
                => /\ d.config_name = "default"
                   /\ ~d.raised
                   /\ DOMAIN new = DOMAIN old
                   /\ \A name \in DOMAIN old \ {"default"} : new[name] = old[name]
                   /\ active_config_name'[m] = active_config_name[m]
                   /\ (c.state = "PRIMARY_SEARCH" /\ d.primary # "gateway_raised")
                      => new["default"].metrics.total_runs =
                            old["default"].metrics.total_runs + 1
             /\ active_config_name'[m] # active_config_name[m]
                => /\ search_configs' = search_configs
                   /\ file' = file
                   /\ call' = call]_vars

====
